---- MODULE Spec2Model ----
(***************************************************************************)
(* Routing and load-balancing core of the pike reverse proxy.              *)
(*                                                                         *)
(* Two implementations live in the repository and both are modelled:       *)
(*   - package proxy   (Director):  match rules, priority, live-backend    *)
(*     slice guarded by a RWMutex, registered selection functions, health  *)
(*     check fan-out.                                                      *)
(*   - package upstream (Upstream): sorted upstream list, Proxy resolver,  *)
(*     target picker built by createProxyHandler.                          *)
(*                                                                         *)
(* Strings that the code hashes are sequences of byte values; strings the  *)
(* code matches (hosts, paths, patterns) are sequences of one-character    *)
(* strings; uint32 values are records [hi, lo] of two 16-bit halves, which *)
(* keeps every intermediate product below 2^31.                            *)
(***************************************************************************)
EXTENDS Integers, Sequences, FiniteSets, TLC

----------------------------------------------------------------------------
(* Bounds of the model *)

\* number of distinct backend addresses of a live list (i stands for "s<i>")
NumAddrs == 3
\* number of addresses the administrator and the health check work with
NumBackends == 2
\* number of concurrent request goroutines calling Director.Select
NumSelectors == 2
\* roundRobin selections are explored until the counter reaches this value
MaxCounter == 3
\* outstanding probe goroutines per backend address
MaxProbes == 2
\* HealthCheck cycles one StartHealthCheck run is followed for
MaxCycles == 2
\* times the backends of a group go down or come back in one run
MaxHealthChanges == 2
\* values rand.Uint32() is drawn from: 0..MaxRand
MaxRand == 2
\* number of directors, and of upstreams in a configuration
NumDirectors == 2
\* selections recorded in a sequential run (roundRobin runs two full cycles)
MaxSelects == 3

Addrs == 1..NumAddrs
BackendAddrs == 1..NumBackends

----------------------------------------------------------------------------
(* uint32 arithmetic on 16-bit halves *)

Half == 65536

U32(n) == [hi |-> 0, lo |-> n]

\* atomic.AddUint32(&x, 1): wraps at 2^32
IncU32(u) ==
  IF u.lo = Half - 1
    THEN [hi |-> (u.hi + 1) % Half, lo |-> 0]
    ELSE [hi |-> u.hi, lo |-> u.lo + 1]

\* index % count for a uint32 index and 0 < count < 2^16
ModU32(u, n) == (((u.hi % n) * (Half % n)) + (u.lo % n)) % n

RECURSIVE XorBits(_, _, _)
XorBits(a, b, n) ==
  IF n = 0 THEN 0
  ELSE (((a % 2) + (b % 2)) % 2) + 2 * XorBits(a \div 2, b \div 2, n - 1)

\* one round of FNV-1a: h = (h XOR byte) * 16777619 mod 2^32
\* 16777619 = 2^24 + 403
FnvStep(h, b) ==
  LET lo1 == (h.lo - (h.lo % 256)) + XorBits(h.lo % 256, b, 8)
      prod == lo1 * 403
  IN [hi |-> ((h.hi * 403) + (prod \div Half) + ((lo1 % 256) * 256)) % Half,
      lo |-> prod % Half]

RECURSIVE FnvFold(_, _)
FnvFold(h, s) == IF s = <<>> THEN h ELSE FnvFold(FnvStep(h, Head(s)), Tail(s))

\* fnv.New32a offset basis 2166136261 = 0x811C9DC5
FnvOffsetHi == 33052
FnvOffsetLo == 40389

\* hash(s string) uint32
hash(s) == FnvFold([hi |-> FnvOffsetHi, lo |-> FnvOffsetLo], s)

----------------------------------------------------------------------------
(* Strings, lists and Go slices *)

\* dash.FindStringIndex: 0-based index of the first occurrence, or -1
FindStringIndex(list, x) ==
  IF \E i \in 1..Len(list) : list[i] = x
    THEN (CHOOSE i \in 1..Len(list) :
            list[i] = x /\ \A j \in 1..(i - 1) : list[j] # x) - 1
    ELSE -1

\* dash.IncludesString
IncludesString(list, x) == \E i \in 1..Len(list) : list[i] = x

\* strings.HasPrefix
HasPrefix(str, prefix) ==
  /\ Len(prefix) <= Len(str)
  /\ \A i \in 1..Len(prefix) : str[i] = prefix[i]

\* append(list, x) on a slice no other goroutine holds: the visible value
AppendList(list, x) == Append(list, x)

\* append(list[0:index], list[index+1:]...): the visible value
RemoveAt(list, index) ==
  [i \in 1..(Len(list) - 1) |-> IF i <= index THEN list[i] ELSE list[i + 1]]

\* A []string shared between goroutines is a header [cap, len] over a backing
\* array.  append only allocates when len = cap and then doubles the
\* capacity, so a backing array is identified by its capacity; arrays maps
\* each allocated capacity to its cells ("" is modelled as 0).
NilSlice == [cap |-> 0, len |-> 0]

\* the elements a holder of header s sees in arrays h
SliceSeq(h, s) == [i \in 1..s.len |-> h[s.cap][i]]

\* runtime growslice for a one-element append to a full []string
GrowCap(c) == IF c = 0 THEN 1 ELSE 2 * c

\* append(s, x): in place when there is room, else copy into a new array
SliceAppend(h, s, x) ==
  IF s.len < s.cap
    THEN [s |-> [cap |-> s.cap, len |-> s.len + 1],
          h |-> [h EXCEPT ![s.cap][s.len + 1] = x]]
    ELSE LET nc == GrowCap(s.cap)
             arr == [i \in 1..nc |->
                       IF i <= s.len THEN h[s.cap][i]
                       ELSE IF i = s.len + 1 THEN x ELSE 0]
         IN [s |-> [cap |-> nc, len |-> s.len + 1],
             h |-> (nc :> arr) @@ h]

\* append(s[0:index], s[index+1:]...): always fits, shifts the tail left in
\* the shared backing array and leaves the old last cell as it was
SliceRemoveAt(h, s, index) ==
  [s |-> [cap |-> s.cap, len |-> s.len - 1],
   h |-> [h EXCEPT ![s.cap] =
            [i \in 1..s.cap |->
               IF i > index /\ i < s.len THEN h[s.cap][i + 1]
               ELSE h[s.cap][i]]]]

----------------------------------------------------------------------------
(* Requests *)

\* client addresses, as the bytes of their text
IPs == {<<49>>, <<50>>}
\* the one header / cookie name the hash policies are configured with
HashKey == "k"
\* header lists of a request: <<name, value>> pairs; the header is absent
\* or present with a value
HeaderLists == {<<>>} \cup {<< <<HashKey, v>> >> : v \in {<<97>>, <<98>>}}
\* cookie lists of a request
CookieLists == {<<>>} \cup {<< <<HashKey, v>> >> : v \in {<<97>>, <<98>>}}

Requests == [ip : IPs, header : HeaderLists, cookie : CookieLists]

\* c.RealIP()
RealIP(c) == c.ip

\* c.GetRequestHeader(key): "" when the header is absent
GetRequestHeader(c, key) ==
  IF \E i \in 1..Len(c.header) : c.header[i][1] = key
    THEN c.header[CHOOSE i \in 1..Len(c.header) : c.header[i][1] = key][2]
    ELSE <<>>

\* c.Cookie(key): the cookie and whether it exists (cookie != nil)
HasCookie(c, key) == \E i \in 1..Len(c.cookie) : c.cookie[i][1] = key
CookieValue(c, key) ==
  c.cookie[CHOOSE i \in 1..Len(c.cookie) : c.cookie[i][1] = key][2]

----------------------------------------------------------------------------
(* State *)

VARIABLES
  \* Director (package proxy), one group --------------------------------
  Policy,             \* d.Policy, a list of tokens: <<"roundRobin">>, ...
  Backends,           \* d.Backends
  availableBackends,  \* d.availableBackends: slice header [cap, len]
  arrays,             \* backing arrays of d.availableBackends, by capacity
  roubin,             \* d.roubin, uint32
  probes,             \* outstanding HealthCheck goroutines per backend
  sel,                \* the request goroutines inside Director.Select
  history,            \* outcomes of the selections of a sequential run
  \* Directors and their match rules ------------------------------------
  Hosts,              \* d.Hosts of each director
  Prefixs,            \* d.Prefixs of each director
  Priority,           \* d.Priority of each director
  directorList,       \* directorList: the directors in routing order
  lastCall,           \* the last call on a director's match rules and its result
  scenario,           \* bookkeeping of an add-then-remove-hosts run
  \* Upstream (package upstream) -----------------------------------------
  upstreams,          \* upstreams: the sorted list built by init()
  proxied,            \* the last Proxy call and its outcome
  us,                 \* the upstream whose target picker is exercised
  \* Health monitoring of the Director ---------------------------------
  check,              \* one doCheck call, attempt by attempt
  monitor,            \* the StartHealthCheck loop and the goroutines of its cycles
  health              \* what a probe of each backend reports now

directorVars == <<Policy, Backends, availableBackends, arrays, roubin, probes, sel>>
adminVars == <<Hosts, Prefixs, Priority, directorList, lastCall, scenario>>
upstreamVars == <<upstreams, proxied>>
monitorVars == <<check, monitor, health>>
vars == <<directorVars, history, adminVars, upstreamVars, us, monitorVars>>

(* Outcomes of a selection *)

Ok(a) == [kind |-> "ok", addr |-> a]
\* Select returned "" (no function registered for the policy)
NoSelection == [kind |-> "none", addr |-> 0]
\* the goroutine panicked (integer divide by zero, nil dereference)
Panicked == [kind |-> "panic", addr |-> 0]
\* errNoAvailableUpstream
NoAvailable == [kind |-> "noAvailable", addr |-> 0]
\* nothing returned yet
Pending == [kind |-> "pending", addr |-> 0]

Selectors == 1..NumSelectors

IdleSelect ==
  [pc |-> "idle", snap |-> NilSlice, index |-> U32(0), result |-> Pending]

----------------------------------------------------------------------------
(* Initial values of the parts a run does not exercise *)

DirectorUnused ==
  /\ Policy = <<"first">>
  /\ Backends = <<>>
  /\ availableBackends = NilSlice
  /\ arrays = <<>>
  /\ roubin = U32(0)
  /\ probes = [b \in BackendAddrs |-> 0]
  /\ sel = [p \in Selectors |-> IdleSelect]

\* no call made yet
NoCall == [op |-> "none", d |-> 0, arg |-> <<>>, uri |-> <<>>, result |-> FALSE]

\* no add-then-remove run under way
NoScenario ==
  [phase |-> "none", d |-> 0, origHosts |-> <<>>, origPriority |-> 0,
   added |-> {}, left |-> {}, fresh |-> TRUE]

AdminUnused ==
  /\ Hosts = <<>>
  /\ Prefixs = <<>>
  /\ Priority = <<>>
  /\ directorList = <<>>
  /\ lastCall = NoCall
  /\ scenario = NoScenario

\* no request proxied yet
NoProxy ==
  [host |-> <<>>, uri |-> <<>>, found |-> 0, err |-> "none", handled |-> 0,
   log |-> <<>>]

UpstreamUnused ==
  /\ upstreams = <<>>
  /\ proxied = NoProxy

PickerUnused == us = <<>>

\* no doCheck call under way
NoCheck ==
  [pc |-> "none", backend |-> 0, i |-> 0, sending |-> 0, received |-> <<>>,
   script |-> <<>>, before |-> <<>>]

\* no StartHealthCheck loop running
NoMonitor ==
  [pc |-> "none", process |-> "running", cycle |-> 0, tasks |-> {},
   started |-> {}, reported |-> <<>>]

MonitorUnused ==
  /\ check = NoCheck
  /\ monitor = NoMonitor
  /\ health = <<>>

----------------------------------------------------------------------------
(* Director: selection functions and Select *)

\* AddSelect("first", ...)
SelectFirst(c, rb) == {[index |-> U32(0), roubin |-> rb]}

\* random drawing its number from the group's counter
SelectRandomCounting(c, rb) == {[index |-> rb, roubin |-> IncU32(rb)]}

\* AddSelect("random", ...): rand.Uint32()
SelectRandom(c, rb) == {[index |-> U32(r), roubin |-> rb] : r \in 0..MaxRand}

\* roundRobin whose increment is not stored
SelectRoundRobinLostUpdate(c, rb) == {[index |-> IncU32(rb), roubin |-> rb]}

\* roundRobin returning the counter's value before the increment
SelectRoundRobinPostIncrement(c, rb) == {[index |-> rb, roubin |-> IncU32(rb)]}

\* AddSelect("roundRobin", ...): atomic.AddUint32(&d.roubin, 1)
SelectRoundRobin(c, rb) == {[index |-> IncU32(rb), roubin |-> IncU32(rb)]}

\* ipHash registered with the body of roundRobin
SelectIPHashCounter(c, rb) == {[index |-> IncU32(rb), roubin |-> IncU32(rb)]}

\* AddSelect("ipHash", ...): hash(c.RealIP())
SelectIPHash(c, rb) == {[index |-> hash(RealIP(c)), roubin |-> rb]}

\* the names registered in selectFuncMap by init()
selectFuncMap == {<<"first">>, <<"random">>, <<"roundRobin">>, <<"ipHash">>}

\* fn(c, d) for fn := selectFuncMap[name]: the possible (index, new counter)
CallSelectFunc(name, c, rb) ==
  CASE name = <<"first">> -> SelectFirst(c, rb)
    [] name = <<"random">> -> SelectRandom(c, rb)
    [] name = <<"roundRobin">> -> SelectRoundRobin(c, rb)
    [] name = <<"ipHash">> -> SelectIPHash(c, rb)

\* availableBackends[index%count], count taken from the same snapshot;
\* count = 0 is an integer division by zero
IndexBackend(snapshot, index) ==
  IF Len(snapshot) = 0
    THEN Panicked
    ELSE Ok(snapshot[ModU32(index, Len(snapshot)) + 1])

\* Director.Select run without interruption on live list `live`:
\* the possible (result, new counter)
SelectOutcomes(name, c, live, rb) ==
  IF name \notin selectFuncMap
    THEN {[result |-> NoSelection, roubin |-> rb]}
    ELSE {[result |-> IndexBackend(live, o.index), roubin |-> o.roubin] :
            o \in CallSelectFunc(name, c, rb)}

\* the request every goroutine of the concurrent runs carries (roundRobin
\* ignores it)
RaceRequest == [ip |-> <<49>>, header |-> <<>>, cookie |-> <<>>]

\* the addresses in d.availableBackends now
LiveSet == {arrays[availableBackends.cap][i] : i \in 1..availableBackends.len}

\* Select, lines 267-274: look the function up; GetAvailableBackends returns
\* the slice header under RLock; index := fn(c, d).  The read of the header
\* and the atomic add commute with every step of the other goroutines that
\* could come between them, so they are one step.
SelectBegin(p) ==
  /\ sel[p].pc = "idle"
  /\ IF Policy \notin selectFuncMap
       THEN /\ sel' = [sel EXCEPT ![p] =
                         [IdleSelect EXCEPT !.pc = "done", !.result = NoSelection]]
            /\ roubin' = roubin
       ELSE /\ roubin.lo < MaxCounter
            /\ \E o \in CallSelectFunc(Policy, RaceRequest, roubin) :
                 /\ sel' = [sel EXCEPT ![p] =
                              [IdleSelect EXCEPT !.pc = "index",
                                 !.snap = availableBackends,
                                 !.index = o.index]]
                 /\ roubin' = o.roubin
  /\ UNCHANGED <<Policy, Backends, availableBackends, arrays, probes>>
  /\ UNCHANGED <<history, adminVars, upstreamVars, monitorVars, us>>

\* Select, line 276: availableBackends[index%count] reads the cell of the
\* snapshot's backing array, after the lock was released
SelectReturn(p) ==
  /\ sel[p].pc = "index"
  /\ LET r == IndexBackend(SliceSeq(arrays, sel[p].snap), sel[p].index)
     IN sel' = [sel EXCEPT ![p] =
                  [IdleSelect EXCEPT !.pc = IF r = Panicked THEN "panic" ELSE "done",
                                     !.result = r]]
  /\ UNCHANGED <<Policy, Backends, availableBackends, arrays, roubin, probes>>
  /\ UNCHANGED <<history, adminVars, upstreamVars, monitorVars, us>>

\* the request is over (a panic is recovered by the server); the goroutine
\* slot serves the next request
SelectEnd(p) ==
  /\ sel[p].pc \in {"done", "panic"}
  /\ sel' = [sel EXCEPT ![p] = IdleSelect]
  /\ UNCHANGED <<Policy, Backends, availableBackends, arrays, roubin, probes>>
  /\ UNCHANGED <<history, adminVars, upstreamVars, monitorVars, us>>

----------------------------------------------------------------------------
(* Director: backends, live backends, health check *)

\* Director.AddBackend
AddBackend(backend) ==
  /\ IF ~IncludesString(Backends, backend)
       THEN Backends' = AppendList(Backends, backend)
       ELSE Backends' = Backends
  /\ UNCHANGED <<Policy, availableBackends, arrays, roubin, probes, sel>>
  /\ UNCHANGED <<history, adminVars, upstreamVars, monitorVars, us>>

\* Director.RemoveBackend
RemoveBackend(backend) ==
  /\ LET index == FindStringIndex(Backends, backend)
     IN IF index # -1
          THEN Backends' = RemoveAt(Backends, index)
          ELSE Backends' = Backends
  /\ UNCHANGED <<Policy, availableBackends, arrays, roubin, probes, sel>>
  /\ UNCHANGED <<history, adminVars, upstreamVars, monitorVars, us>>

\* an AddAvailableBackend that appends without looking for the address
AddAvailableBackendUnchecked(h, s, backend) == SliceAppend(h, s, backend)

\* Director.AddAvailableBackend, under d.mutex.Lock: new (header, arrays)
AddAvailableBackend(h, s, backend) ==
  IF ~IncludesString(SliceSeq(h, s), backend)
    THEN SliceAppend(h, s, backend)
    ELSE [s |-> s, h |-> h]

\* a RemoveAvailableBackend that leaves the list as it is
RemoveAvailableBackendKeep(h, s, backend) == [s |-> s, h |-> h]

\* Director.RemoveAvailableBackend, under d.mutex.Lock: new (header, arrays)
RemoveAvailableBackend(h, s, backend) ==
  LET index == FindStringIndex(SliceSeq(h, s), backend)
  IN IF index # -1
       THEN SliceRemoveAt(h, s, index)
       ELSE [s |-> s, h |-> h]

\* the attempts of one doCheck: 1 = passed, 0 = failed
ProbeAttempts == 5
Scripts == [1..ProbeAttempts -> {0, 1}]

RECURSIVE SumTo(_, _)
SumTo(script, n) == IF n = 0 THEN 0 ELSE script[n] + SumTo(script, n - 1)

\* successCount >= 3
HealthyThreshold == 3

\* a doCheck that asks for more than three passes
doCheckStrict(script) == SumTo(script, ProbeAttempts) > HealthyThreshold

\* doCheck: the five results are summed, healthy iff at least three passed
doCheck(script) == SumTo(script, ProbeAttempts) >= HealthyThreshold

\* Director.HealthCheck: one goroutine per configured backend
HealthCheck ==
  /\ Backends # <<>>
  /\ \A i \in 1..Len(Backends) : probes[Backends[i]] < MaxProbes
  /\ probes' = [b \in BackendAddrs |->
                  probes[b] + Cardinality({i \in 1..Len(Backends) : Backends[i] = b})]
  /\ UNCHANGED <<Policy, Backends, availableBackends, arrays, roubin, sel>>
  /\ UNCHANGED <<history, adminVars, upstreamVars, monitorVars, us>>

\* the verdicts doCheck can return
Verdicts == {doCheck(script) : script \in Scripts}

\* the goroutine HealthCheck started for `backend` finishes: doCheck has
\* gathered its five results and the live list is updated
ProbeDone(backend, healthy) ==
  /\ probes[backend] > 0
  /\ probes' = [probes EXCEPT ![backend] = @ - 1]
  /\ LET r == IF healthy
                THEN AddAvailableBackend(arrays, availableBackends, backend)
                ELSE RemoveAvailableBackend(arrays, availableBackends, backend)
     IN /\ availableBackends' = r.s
        /\ arrays' = r.h
  /\ UNCHANGED <<Policy, Backends, roubin, sel>>
  /\ UNCHANGED <<history, adminVars, upstreamVars, monitorVars, us>>

----------------------------------------------------------------------------
(* Upstream: the target picker of createProxyHandler *)

policyFirst == <<"first">>
policyRandom == <<"random">>
policyRoundRobin == <<"roundRobin">>
policyLeastconn == <<"leastconn">>
policyIPHash == <<"ipHash">>
headerHashPrefix == <<"header:">>
cookieHashPrefix == <<"cookie:">>

\* a nil *up.HTTPUpstream
NilUpstream == 0

\* up.HTTP.GetAvailableUpstream(index): nil when nothing is available, else
\* the available upstream at index modulo their number
GetAvailableUpstream(available, index) ==
  IF available = <<>>
    THEN NilUpstream
    ELSE available[ModU32(index, Len(available)) + 1]

\* up.HTTP.PolicyLeastconn(): the first available upstream with the fewest
\* connections in flight
PolicyLeastconn(available, conns) ==
  IF available = <<>>
    THEN NilUpstream
    ELSE available[CHOOSE i \in 1..Len(available) :
                     /\ \A j \in 1..Len(available) :
                          conns[available[i]] <= conns[available[j]]
                     /\ \A j \in 1..(i - 1) :
                          conns[available[j]] > conns[available[i]]]

\* if result == nil { return nil, errNoAvailableUpstream }; return result.URL
PickResult(result) == IF result = NilUpstream THEN NoAvailable ELSE Ok(result)

\* the default branch of the switch: the index hashed from the configured
\* header or cookie, 0 when the policy is neither or the cookie is missing
HashIndex(policy, c) ==
  IF HasPrefix(policy, headerHashPrefix)
    THEN hash(GetRequestHeader(c, policy[2]))
    ELSE IF HasPrefix(policy, cookieHashPrefix) /\ HasCookie(c, policy[2])
           THEN hash(CookieValue(c, policy[2]))
           ELSE U32(0)

\* fn := func(c *cod.Context) (*url.URL, error) of createProxyHandler on
\* upstream u: the possible (result, new upstream state)
TargetPicker(u, c) ==
  CASE u.Policy = policyFirst ->
         {[result |-> PickResult(GetAvailableUpstream(u.available, U32(0))),
           us |-> u]}
    [] u.Policy = policyRandom ->
         {[result |-> PickResult(GetAvailableUpstream(u.available, U32(r))),
           us |-> u] : r \in 0..MaxRand}
    [] u.Policy = policyRoundRobin ->
         {[result |-> PickResult(GetAvailableUpstream(u.available,
                                                      IncU32(u.roundRobin))),
           us |-> [u EXCEPT !.roundRobin = IncU32(u.roundRobin)]]}
    [] u.Policy = policyLeastconn ->
         LET result == PolicyLeastconn(u.available, u.conns)
         IN IF result = NilUpstream
              THEN \* result.Inc() on a nil pointer
                   {[result |-> Panicked, us |-> u]}
              ELSE {[result |-> PickResult(result),
                     us |-> [u EXCEPT !.conns[result] = @ + 1,
                                      !.callbacks = Append(@, result)]]}
    [] u.Policy = policyIPHash ->
         {[result |-> PickResult(GetAvailableUpstream(u.available,
                                                      hash(RealIP(c)))),
           us |-> u]}
    [] OTHER ->
         {[result |-> PickResult(GetAvailableUpstream(u.available,
                                                      HashIndex(u.Policy, c))),
           us |-> u]}

\* createUpstreamFromBackend: the policy defaults to roundRobin
UpstreamPolicy(policy) == IF policy = <<>> THEN policyRoundRobin ELSE policy

----------------------------------------------------------------------------
(* SpecSelect: sequential selections on an unchanged live list *)

\* policy names of a configuration
PolicyNames ==
  {policyFirst, policyRandom, policyRoundRobin, policyLeastconn, policyIPHash,
   headerHashPrefix \o <<HashKey>>, cookieHashPrefix \o <<HashKey>>,
   <<"unknown">>, <<>>}

\* the elements of list l
Elems(l) == {l[i] : i \in 1..Len(l)}

RECURSIVE ListsOver(_, _)
\* the lists of at most n distinct elements of S
ListsOver(S, n) ==
  IF n = 0 THEN {<<>>}
  ELSE LET shorter == ListsOver(S, n - 1)
       IN shorter \cup
          UNION {{Append(l, x) : x \in S \ Elems(l)} :
                   l \in {m \in shorter : Len(m) = n - 1}}

LiveLists == ListsOver(Addrs, NumAddrs)

\* the slice a run of AddAvailableBackend calls builds for list l
RECURSIVE SliceOf(_)
SliceOf(l) ==
  IF l = <<>> THEN [s |-> NilSlice, h |-> <<>>]
  ELSE LET r == SliceOf(SubSeq(l, 1, Len(l) - 1))
       IN AddAvailableBackend(r.h, r.s, l[Len(l)])

\* what the policy hashes of request c
HashedKey(policy, c) ==
  IF policy = policyIPHash THEN c.ip
  ELSE IF HasPrefix(policy, headerHashPrefix) THEN c.header
  ELSE IF HasPrefix(policy, cookieHashPrefix) THEN c.cookie
  ELSE <<>>

\* a roundRobin run is followed for two cycles
SelectBound ==
  IF Policy = policyRoundRobin
    THEN 2 * (IF availableBackends.len = 0 THEN 1 ELSE availableBackends.len)
    ELSE MaxSelects

InitSelect ==
  /\ \E policy \in PolicyNames, live \in LiveLists :
       /\ Policy = policy
       /\ availableBackends = SliceOf(live).s
       /\ arrays = SliceOf(live).h
       /\ Backends = live
       /\ us = [Policy |-> UpstreamPolicy(policy), available |-> live,
                roundRobin |-> U32(0), conns |-> [b \in Addrs |-> 0],
                callbacks |-> <<>>]
  /\ roubin = U32(0)
  /\ probes = [b \in BackendAddrs |-> 0]
  /\ sel = [p \in Selectors |-> IdleSelect]
  /\ history = <<>>
  /\ AdminUnused
  /\ UpstreamUnused
  /\ MonitorUnused

\* Director.Select(c), from call to return
Select(c) ==
  /\ Len(history) < SelectBound
  /\ \E o \in SelectOutcomes(Policy, c, SliceSeq(arrays, availableBackends), roubin) :
       /\ roubin' = o.roubin
       /\ history' = Append(history, [op |-> "Select", key |-> HashedKey(Policy, c),
                                      result |-> o.result])
  /\ UNCHANGED <<Policy, Backends, availableBackends, arrays, probes, sel>>
  /\ UNCHANGED <<adminVars, upstreamVars, monitorVars, us>>

\* the proxy asks the upstream's target picker for request c
Pick(c) ==
  /\ Len(history) < SelectBound
  /\ \E o \in TargetPicker(us, c) :
       /\ us' = o.us
       /\ history' = Append(history, [op |-> "Pick", key |-> HashedKey(us.Policy, c),
                                      result |-> o.result])
  /\ UNCHANGED <<directorVars, adminVars, upstreamVars, monitorVars>>

\* the proxied request is over: the callback stored under
\* df.ProxyDoneCallback (result.Dec) runs
ProxyDone(i) ==
  /\ i \in 1..Len(us.callbacks)
  /\ us' = [us EXCEPT !.conns[us.callbacks[i]] = @ - 1,
                      !.callbacks = RemoveAt(@, i - 1)]
  /\ UNCHANGED <<directorVars, history, adminVars, upstreamVars, monitorVars>>

NextSelect ==
  \/ \E c \in Requests : Select(c)
  \/ \E c \in Requests : Pick(c)
  \/ \E i \in 1..MaxSelects : ProxyDone(i)

SpecSelect == InitSelect /\ [][NextSelect]_vars

----------------------------------------------------------------------------
(* Spec: one roundRobin Director under concurrent requests, administration *)
(* and health checking                                                     *)

Init ==
  /\ Policy = <<"roundRobin">>
  /\ Backends = <<>>
  /\ availableBackends = NilSlice
  /\ arrays = <<>>
  /\ roubin = U32(0)
  /\ probes = [b \in BackendAddrs |-> 0]
  /\ sel = [p \in Selectors |-> IdleSelect]
  /\ history = <<>>
  /\ AdminUnused
  /\ UpstreamUnused
  /\ MonitorUnused
  /\ PickerUnused

Next ==
  \/ \E b \in BackendAddrs : AddBackend(b)
  \/ \E b \in BackendAddrs : RemoveBackend(b)
  \/ HealthCheck
  \/ \E b \in BackendAddrs, healthy \in Verdicts : ProbeDone(b, healthy)
  \/ \E p \in Selectors : SelectBegin(p)
  \/ \E p \in Selectors : SelectReturn(p)
  \/ \E p \in Selectors : SelectEnd(p)

Spec == Init /\ [][Next]_vars

----------------------------------------------------------------------------
(* Director: match rules and priority *)

\* host patterns of a configuration: "a", "^a$"
HostPatterns == {<<"a">>, <<"^", "a", "$">>}
\* path prefixes of a configuration: "/a", "/b"
PathPrefixes == {<<"/", "a">>, <<"/", "b">>}
\* request hosts: "a", "ab", "b"
RequestHosts == {<<"a">>, <<"a", "b">>, <<"b">>}
\* request paths: "/", "/a", "/ab"
RequestPaths == {<<"/">>, <<"/", "a">>, <<"/", "a", "b">>}

HostLists == ListsOver(HostPatterns, Cardinality(HostPatterns))
PrefixLists == ListsOver(PathPrefixes, Cardinality(PathPrefixes))

\* regexp.MustCompile(pattern).Match(text) for a pattern made of an optional
\* leading ^, literal letters and an optional trailing $: an unanchored
\* search for the letters
RegexpMatch(pattern, text) ==
  LET anchoredStart == Len(pattern) > 0 /\ pattern[1] = "^"
      anchoredEnd == Len(pattern) > 0 /\ pattern[Len(pattern)] = "$"
      lit == SubSeq(pattern, IF anchoredStart THEN 2 ELSE 1,
                    IF anchoredEnd THEN Len(pattern) - 1 ELSE Len(pattern))
  IN \E i \in 1..(Len(text) + 1) :
       /\ i + Len(lit) - 1 <= Len(text)
       /\ anchoredStart => i = 1
       /\ anchoredEnd => i + Len(lit) - 1 = Len(text)
       /\ \A k \in 1..Len(lit) : text[i + k - 1] = lit[k]

\* Director.Match(host, uri) on host patterns `hosts` and prefixes `prefixs`
DirectorMatch(hosts, prefixs, host, uri) ==
  IF Len(hosts) = 0 /\ Len(prefixs) = 0
    THEN TRUE
    ELSE LET hostMatch == \E i \in 1..Len(hosts) : RegexpMatch(hosts[i], host)
             prefixMatch == \E i \in 1..Len(prefixs) : HasPrefix(uri, prefixs[i])
         IN IF Len(hosts) # 0 /\ ~hostMatch
              THEN FALSE
              ELSE IF Len(prefixs) # 0
                     THEN prefixMatch
                     ELSE Len(hosts) # 0 /\ hostMatch

\* Director.RefreshPriority: the value assigned to d.Priority
BasePriority == 8
HostsBonus == 4
PrefixsBonus == 2

RefreshPriority(hosts, prefixs) ==
  BasePriority - (IF Len(hosts) # 0 THEN HostsBonus ELSE 0)
               - (IF Len(prefixs) # 0 THEN PrefixsBonus ELSE 0)

Directors == 1..NumDirectors

\* AddHost that appends without refreshing the priority
AddHostNoRefresh(d, host) ==
  /\ Hosts' = [Hosts EXCEPT ![d] =
                 IF ~IncludesString(@, host) THEN AppendList(@, host) ELSE @]
  /\ UNCHANGED <<Prefixs, Priority, directorList>>

\* Director.AddHost: the effect on the director
AddHostBody(d, host) ==
  /\ IF ~IncludesString(Hosts[d], host)
       THEN /\ Hosts' = [Hosts EXCEPT ![d] = AppendList(@, host)]
            /\ Priority' = [Priority EXCEPT ![d] =
                              RefreshPriority(Hosts'[d], Prefixs[d])]
       ELSE UNCHANGED <<Hosts, Priority>>
  /\ UNCHANGED <<Prefixs, directorList>>

\* RemoveHost that removes without refreshing the priority
RemoveHostNoRefresh(d, host) ==
  /\ LET index == FindStringIndex(Hosts[d], host)
     IN Hosts' = [Hosts EXCEPT ![d] = IF index # -1 THEN RemoveAt(@, index) ELSE @]
  /\ UNCHANGED <<Prefixs, Priority, directorList>>

\* Director.RemoveHost: the effect on the director
RemoveHostBody(d, host) ==
  /\ LET index == FindStringIndex(Hosts[d], host)
     IN IF index # -1
          THEN /\ Hosts' = [Hosts EXCEPT ![d] = RemoveAt(@, index)]
               /\ Priority' = [Priority EXCEPT ![d] =
                                 RefreshPriority(Hosts'[d], Prefixs[d])]
          ELSE UNCHANGED <<Hosts, Priority>>
  /\ UNCHANGED <<Prefixs, directorList>>

\* the record of a call on director d; a Match call is kept with its
\* arguments and its answer
Call(op, d, arg, uri, result) ==
  [op |-> op, d |-> d, arg |-> arg, uri |-> uri, result |-> result]

\* the parts no call on the match rules touches
AdminFrame == UNCHANGED <<directorVars, history, upstreamVars, monitorVars, us, scenario>>

\* Director.AddHost
AddHost(d, host) ==
  /\ AddHostBody(d, host)
  /\ lastCall' = Call("AddHost", d, <<>>, <<>>, TRUE)
  /\ AdminFrame

\* Director.RemoveHost
RemoveHost(d, host) ==
  /\ RemoveHostBody(d, host)
  /\ lastCall' = Call("RemoveHost", d, <<>>, <<>>, TRUE)
  /\ AdminFrame

\* Director.AddPrefix
AddPrefix(d, prefix) ==
  /\ IF ~IncludesString(Prefixs[d], prefix)
       THEN /\ Prefixs' = [Prefixs EXCEPT ![d] = AppendList(@, prefix)]
            /\ Priority' = [Priority EXCEPT ![d] =
                              RefreshPriority(Hosts[d], Prefixs'[d])]
       ELSE UNCHANGED <<Prefixs, Priority>>
  /\ lastCall' = Call("AddPrefix", d, <<>>, <<>>, TRUE)
  /\ UNCHANGED <<Hosts, directorList>>
  /\ AdminFrame

\* Director.RemovePrefix
RemovePrefix(d, prefix) ==
  /\ LET index == FindStringIndex(Prefixs[d], prefix)
     IN IF index # -1
          THEN /\ Prefixs' = [Prefixs EXCEPT ![d] = RemoveAt(@, index)]
               /\ Priority' = [Priority EXCEPT ![d] =
                                 RefreshPriority(Hosts[d], Prefixs'[d])]
          ELSE UNCHANGED <<Prefixs, Priority>>
  /\ lastCall' = Call("RemovePrefix", d, <<>>, <<>>, TRUE)
  /\ UNCHANGED <<Hosts, directorList>>
  /\ AdminFrame

\* Director.Match(host, uri)
Match(d, host, uri) ==
  /\ lastCall' = Call("Match", d, host, uri,
                      DirectorMatch(Hosts[d], Prefixs[d], host, uri))
  /\ UNCHANGED <<Hosts, Prefixs, Priority, directorList>>
  /\ AdminFrame

\* Directors.Less
DirectorsLess(prio, a, b) == prio[a] < prio[b]

\* the orders sort.Sort may leave a list of n elements in: no element is
\* Less than one placed before it
SortedOrders(n, prio) ==
  {l \in ListsOver(1..n, n) :
     /\ Len(l) = n
     /\ \A i, j \in 1..n : i < j => ~DirectorsLess(prio, l[j], l[i])}

----------------------------------------------------------------------------
(* SpecAdmin: the directors' match rules under administration *)

\* the directors as constructed from the configuration: each with its host
\* and prefix lists and the priority they give, listed in priority order
InitAdmin ==
  /\ Hosts \in [Directors -> HostLists]
  /\ Prefixs \in [Directors -> PrefixLists]
  /\ Priority = [d \in Directors |-> RefreshPriority(Hosts[d], Prefixs[d])]
  /\ directorList \in SortedOrders(NumDirectors, Priority)
  /\ lastCall = NoCall
  /\ scenario = NoScenario
  /\ DirectorUnused
  /\ history = <<>>
  /\ UpstreamUnused
  /\ PickerUnused
  /\ MonitorUnused

NextAdmin ==
  \/ \E d \in Directors, host \in HostPatterns : AddHost(d, host)
  \/ \E d \in Directors, host \in HostPatterns : RemoveHost(d, host)
  \/ \E d \in Directors, prefix \in PathPrefixes : AddPrefix(d, prefix)
  \/ \E d \in Directors, prefix \in PathPrefixes : RemovePrefix(d, prefix)

SpecAdmin == InitAdmin /\ [][NextAdmin]_vars

----------------------------------------------------------------------------
(* SpecMatch: requests matched against the directors' rules *)

NextMatch ==
  \E d \in Directors, host \in RequestHosts, uri \in RequestPaths :
    Match(d, host, uri)

SpecMatch == InitAdmin /\ [][NextMatch]_vars

----------------------------------------------------------------------------
(* SpecAddRemove: hosts are added to a director and then removed again *)

\* scenario remembers the director's host list and priority before the
\* first AddHost, the hosts passed to AddHost, those still to be removed, and
\* whether every added host was new to the list
InitAddRemove ==
  /\ Hosts \in [Directors -> HostLists]
  /\ Prefixs \in [Directors -> PrefixLists]
  /\ Priority = [d \in Directors |-> RefreshPriority(Hosts[d], Prefixs[d])]
  /\ directorList \in SortedOrders(NumDirectors, Priority)
  /\ lastCall = NoCall
  /\ \E d \in Directors :
       scenario = [phase |-> "add", d |-> d, origHosts |-> Hosts[d],
                   origPriority |-> Priority[d], added |-> {}, left |-> {},
                   fresh |-> TRUE]
  /\ DirectorUnused
  /\ history = <<>>
  /\ UpstreamUnused
  /\ PickerUnused
  /\ MonitorUnused

\* d.AddHost(host) in the adding phase
AddHostStep(host) ==
  /\ scenario.phase = "add"
  /\ AddHostBody(scenario.d, host)
  /\ scenario' = [scenario EXCEPT
                    !.added = @ \cup {host},
                    !.left = @ \cup {host},
                    !.fresh = @ /\ ~IncludesString(scenario.origHosts, host)]
  /\ UNCHANGED <<directorVars, history, upstreamVars, monitorVars, us, lastCall>>

\* d.RemoveHost(host) of a host that was added and not yet removed
RemoveHostStep(host) ==
  /\ scenario.phase \in {"add", "remove"}
  /\ host \in scenario.left
  /\ RemoveHostBody(scenario.d, host)
  /\ scenario' = [scenario EXCEPT
                    !.left = @ \ {host},
                    !.phase = IF scenario.left = {host} THEN "done" ELSE "remove"]
  /\ UNCHANGED <<directorVars, history, upstreamVars, monitorVars, us, lastCall>>

NextAddRemove ==
  \/ \E host \in HostPatterns : AddHostStep(host)
  \/ \E host \in HostPatterns : RemoveHostStep(host)

SpecAddRemove == InitAddRemove /\ [][NextAddRemove]_vars

----------------------------------------------------------------------------
(* SpecProxy: the upstream list built by init() and Proxy *)

\* Upstream.Match(c) on c.Request.Host = host, c.Request.RequestURI = uri
UpstreamMatch(hosts, prefixs, host, uri) ==
  IF Len(hosts) # 0 /\ ~(\E i \in 1..Len(hosts) : host = hosts[i])
    THEN FALSE
    ELSE IF Len(prefixs) # 0 /\ ~(\E i \in 1..Len(prefixs) : HasPrefix(uri, prefixs[i]))
           THEN FALSE
           ELSE TRUE

\* createUpstreamFromBackend: the fields Proxy and Match read
createUpstreamFromBackend(backend) ==
  [Name |-> backend.Name, Hosts |-> backend.Hosts, Prefixs |-> backend.Prefixs,
   Priority |-> BasePriority
                  - (IF Len(backend.Hosts) # 0 THEN HostsBonus ELSE 0)
                  - (IF Len(backend.Prefixs) # 0 THEN PrefixsBonus ELSE 0)]

\* init() that leaves the upstreams in configuration order
ConfigOrder(list) == {list}

\* sort.Sort(upstreams) with Upstreams.Less: the orders it may produce
SortUpstreams(list) ==
  {[i \in 1..Len(list) |-> list[o[i]]] :
     o \in SortedOrders(Len(list), [k \in 1..Len(list) |-> list[k].Priority])}

\* the Director entries of backends.yml
Configs ==
  {cfg \in [1..NumDirectors -> [Name : 1..NumDirectors, Hosts : HostLists,
                                Prefixs : PrefixLists]] :
     \A i \in 1..NumDirectors : cfg[i].Name = i}

\* init(): one upstream per configured backend, then sorted
InitProxy ==
  /\ \E cfg \in Configs :
       upstreams \in SortUpstreams([i \in 1..NumDirectors |->
                                      createUpstreamFromBackend(cfg[i])])
  /\ proxied = NoProxy
  /\ DirectorUnused
  /\ history = <<>>
  /\ AdminUnused
  /\ PickerUnused
  /\ MonitorUnused

\* the upstreams Proxy asks before it stops: up to the first that matches
Visited(host, uri) ==
  {i \in 1..Len(upstreams) :
     \A j \in 1..(i - 1) :
       ~UpstreamMatch(upstreams[j].Hosts, upstreams[j].Prefixs, host, uri)}

\* Proxy(c): the first upstream that matches handles the request; log keeps
\* what Match answered for each upstream asked
Proxy(host, uri) ==
  /\ LET asked == Visited(host, uri)
         log == [i \in 1..Cardinality(asked) |->
                   [up |-> i,
                    match |-> UpstreamMatch(upstreams[i].Hosts,
                                            upstreams[i].Prefixs, host, uri)]]
         hit == {i \in asked : log[i].match}
     IN IF hit = {}
          THEN proxied' = [host |-> host, uri |-> uri, found |-> 0,
                           err |-> "no match upstream", handled |-> 0,
                           log |-> log]
          ELSE LET found == CHOOSE i \in hit : TRUE
               IN proxied' = [host |-> host, uri |-> uri,
                              found |-> upstreams[found].Name, err |-> "none",
                              handled |-> upstreams[found].Name, log |-> log]
  /\ UNCHANGED <<directorVars, history, adminVars, upstreams, us, monitorVars>>

NextProxy == \E host \in RequestHosts, uri \in RequestPaths : Proxy(host, uri)

SpecProxy == InitProxy /\ [][NextProxy]_vars

----------------------------------------------------------------------------
(* SpecCheck: one goroutine of HealthCheck, doCheck attempt by attempt *)

\* what client.Get returns: a transport error (and no response), or a
\* response with its StatusCode
Statuses == {199, 200, 399, 400}
Responses ==
  {[err |-> TRUE, status |-> 0]} \cup {[err |-> FALSE, status |-> st] : st \in Statuses}

\* doCheck, lines 241-251: the value the goroutine sends on c
AttemptResult(resp) ==
  IF resp.err THEN 0
  ELSE IF resp.status >= 200 /\ resp.status < 400 THEN 1
  ELSE 0

\* HealthCheck has started the goroutine for one backend; doCheck has made
\* the channel and started the sender
InitCheck ==
  /\ \E backend \in BackendAddrs, live \in ListsOver(BackendAddrs, NumBackends) :
       /\ Backends = <<backend>>
       /\ availableBackends = SliceOf(live).s
       /\ arrays = SliceOf(live).h
       /\ check = [NoCheck EXCEPT !.pc = "get", !.backend = backend, !.before = live]
  /\ Policy = <<"roundRobin">>
  /\ roubin = U32(0)
  /\ probes = [b \in BackendAddrs |-> 0]
  /\ sel = [p \in Selectors |-> IdleSelect]
  /\ history = <<>>
  /\ monitor = NoMonitor
  /\ health = <<>>
  /\ AdminUnused
  /\ UpstreamUnused
  /\ PickerUnused

CheckFrame ==
  UNCHANGED <<directorVars, history, adminVars, upstreamVars, us, monitor, health>>

\* doCheck, line 240: the sender's client.Get returns (an answer, an error or
\* the 3 s timeout)
CheckGet(resp) ==
  /\ check.pc = "get"
  /\ check' = [check EXCEPT !.pc = "send",
                            !.sending = AttemptResult(resp),
                            !.script = Append(@, resp)]
  /\ CheckFrame

\* doCheck, lines 243-250 and 256-258: c is unbuffered, the send and the
\* receive of `for i := range c` are one step; successCount += i
CheckReceive ==
  /\ check.pc = "send"
  /\ check' = [check EXCEPT !.pc = IF check.i + 1 < ProbeAttempts THEN "get" ELSE "close",
                            !.i = @ + 1,
                            !.received = Append(@, check.sending)]
  /\ CheckFrame

\* doCheck, line 253: close(c) ends the receiver's range loop
CheckClose ==
  /\ check.pc = "close"
  /\ check' = [check EXCEPT !.pc = "closed"]
  /\ CheckFrame

\* doCheck, lines 259-262, and HealthCheck, lines 286-290
CheckDecide ==
  /\ check.pc = "closed"
  /\ LET r == IF doCheck(check.received)
                THEN AddAvailableBackend(arrays, availableBackends, check.backend)
                ELSE RemoveAvailableBackend(arrays, availableBackends, check.backend)
     IN /\ availableBackends' = r.s
        /\ arrays' = r.h
  /\ check' = [check EXCEPT !.pc = "done"]
  /\ UNCHANGED <<Policy, Backends, roubin, probes, sel>>
  /\ UNCHANGED <<history, adminVars, upstreamVars, us, monitor, health>>

NextCheck ==
  \/ \E resp \in Responses : CheckGet(resp)
  \/ CheckReceive
  \/ CheckClose
  \/ CheckDecide

SpecCheck == InitCheck /\ [][NextCheck]_vars

----------------------------------------------------------------------------
(* SpecMonitor: the StartHealthCheck loop, its cycles and their goroutines *)

\* StartHealthCheck(interval) has been called for a group whose probes have
\* not reported yet
InitMonitor ==
  /\ \E backends \in ListsOver(BackendAddrs, NumBackends) :
       /\ backends # <<>>
       /\ Backends = backends
  /\ Policy = <<"roundRobin">>
  /\ availableBackends = NilSlice
  /\ arrays = <<>>
  /\ roubin = U32(0)
  /\ probes = [b \in BackendAddrs |-> 0]
  /\ sel = [p \in Selectors |-> IdleSelect]
  /\ history = <<>>
  /\ check = NoCheck
  /\ monitor = [NoMonitor EXCEPT !.pc = "ticking",
                                 !.reported = [b \in BackendAddrs |-> "none"]]
  /\ health = <<>>
  /\ AdminUnused
  /\ UpstreamUnused
  /\ PickerUnused

MonitorFrame ==
  /\ UNCHANGED <<Policy, Backends, availableBackends, arrays, roubin, probes, sel>>
  /\ UNCHANGED <<history, adminVars, upstreamVars, us, check, health>>

\* StartHealthCheck, lines 308-309: the ticker fires and d.HealthCheck()
\* starts one goroutine per configured backend (lines 281-292)
Tick ==
  /\ monitor.process = "running"
  /\ monitor.pc = "ticking"
  /\ monitor.cycle < MaxCycles
  /\ monitor' = [monitor EXCEPT
                   !.cycle = @ + 1,
                   !.tasks = @ \cup {[backend |-> Backends[i], cycle |-> monitor.cycle + 1] :
                                       i \in 1..Len(Backends)},
                   !.started = Elems(Backends),
                   !.reported = [b \in BackendAddrs |-> "none"]]
  /\ MonitorFrame

\* HealthCheck, lines 283-291: the goroutine of one cycle for one backend
\* has its verdict from doCheck and updates the live list
TaskDone(task, healthy) ==
  /\ monitor.process = "running"
  /\ task \in monitor.tasks
  /\ LET r == IF healthy
                THEN AddAvailableBackend(arrays, availableBackends, task.backend)
                ELSE RemoveAvailableBackend(arrays, availableBackends, task.backend)
     IN /\ availableBackends' = r.s
        /\ arrays' = r.h
  /\ monitor' = [monitor EXCEPT
                   !.tasks = @ \ {task},
                   !.reported = IF task.cycle = monitor.cycle
                                  THEN [@ EXCEPT ![task.backend] =
                                          IF healthy THEN "healthy" ELSE "unhealthy"]
                                  ELSE @]
  /\ UNCHANGED <<Policy, Backends, roubin, probes, sel>>
  /\ UNCHANGED <<history, adminVars, upstreamVars, us, check, health>>

\* a panic inside d.HealthCheck() itself: it unwinds the loop goroutine to
\* the deferred function of StartHealthCheck, lines 298-305, whose recover()
\* stops it; time.Sleep(time.Second) follows
CycleFault ==
  /\ monitor.process = "running"
  /\ monitor.pc = "ticking"
  /\ monitor' = [monitor EXCEPT !.pc = "recovering"]
  /\ MonitorFrame

\* StartHealthCheck, line 303: after the sleep the deferred function calls
\* d.StartHealthCheck(interval), which makes a new ticker
Restart ==
  /\ monitor.process = "running"
  /\ monitor.pc = "recovering"
  /\ monitor' = [monitor EXCEPT !.pc = "ticking"]
  /\ MonitorFrame

\* a panic inside a goroutine started at line 283: that goroutine has no
\* deferred recover (the one of StartHealthCheck belongs to the loop
\* goroutine), so the Go runtime ends the program
TaskFault(task) ==
  /\ monitor.process = "running"
  /\ task \in monitor.tasks
  /\ monitor' = [monitor EXCEPT !.process = "crashed", !.tasks = {}]
  /\ MonitorFrame

Tasks == [backend : BackendAddrs, cycle : 1..MaxCycles]

NextMonitor ==
  \/ Tick
  \/ \E task \in Tasks, healthy \in Verdicts : TaskDone(task, healthy)
  \/ CycleFault
  \/ Restart
  \/ \E task \in Tasks : TaskFault(task)

SpecMonitor == InitMonitor /\ [][NextMonitor]_vars

----------------------------------------------------------------------------
(* SpecLists: the backend list and the live list under administration and *)
(* overlapping health-check cycles                                         *)

\* the probe goroutines that have not finished
RECURSIVE Outstanding(_)
Outstanding(n) == IF n = 0 THEN 0 ELSE probes[n] + Outstanding(n - 1)

\* a cycle starts while its goroutines and the unfinished ones of earlier
\* cycles number at most MaxProbes
NextLists ==
  \/ \E b \in BackendAddrs : AddBackend(b)
  \/ \E b \in BackendAddrs : RemoveBackend(b)
  \/ /\ Outstanding(NumBackends) + Len(Backends) <= MaxProbes
     /\ HealthCheck
  \/ \E b \in BackendAddrs, healthy \in Verdicts : ProbeDone(b, healthy)

SpecLists == Init /\ [][NextLists]_vars

----------------------------------------------------------------------------
(* SpecFrame: what Match and Select leave alone *)

\* directors of which the first has match rules and the others match every
\* request
InitRules ==
  /\ \E hosts \in HostLists, prefixs \in PrefixLists :
       /\ Hosts = [d \in Directors |-> IF d = 1 THEN hosts ELSE <<>>]
       /\ Prefixs = [d \in Directors |-> IF d = 1 THEN prefixs ELSE <<>>]
  /\ Priority = [d \in Directors |-> RefreshPriority(Hosts[d], Prefixs[d])]
  /\ directorList \in SortedOrders(NumDirectors, Priority)
  /\ lastCall = NoCall
  /\ scenario = NoScenario
  /\ DirectorUnused
  /\ history = <<>>
  /\ UpstreamUnused
  /\ PickerUnused
  /\ MonitorUnused

\* a run starts from a group with a policy and a live list, or from
\* directors with match rules
InitFrame == InitSelect \/ InitRules

NextFrame ==
  \/ \E c \in Requests : Select(c)
  \/ \E d \in Directors, host \in RequestHosts, uri \in RequestPaths :
       /\ directorList # <<>>
       /\ Match(d, host, uri)

SpecFrame == InitFrame /\ [][NextFrame]_vars

----------------------------------------------------------------------------
(* SpecCounter: concurrent roundRobin selections on an unchanged live list *)

\* every request goroutine is about to call Select on a roundRobin group
InitCounter ==
  /\ \E live \in LiveLists :
       /\ availableBackends = SliceOf(live).s
       /\ arrays = SliceOf(live).h
       /\ Backends = live
  /\ Policy = <<"roundRobin">>
  /\ roubin = U32(0)
  /\ probes = [b \in BackendAddrs |-> 0]
  /\ sel = [p \in Selectors |-> IdleSelect]
  /\ history = <<>>
  /\ AdminUnused
  /\ UpstreamUnused
  /\ PickerUnused
  /\ MonitorUnused

NextCounter ==
  \/ \E p \in Selectors : SelectBegin(p)
  \/ \E p \in Selectors : SelectReturn(p)

SpecCounter == InitCounter /\ [][NextCounter]_vars

----------------------------------------------------------------------------
(* SpecLive: the monitor of one group under fair scheduling *)

\* what a probe of a backend reports: doCheck's verdict is true for a
\* backend that is up and false for one that is down
HealthStates == {"up", "down"}

\* StartHealthCheck has been called for a group whose live list is still
\* empty; the order of the configured backends plays no part, each set of
\* them is taken in one order
InitLive ==
  /\ \E backends \in ListsOver(BackendAddrs, NumBackends) :
       /\ backends # <<>>
       /\ \A i, j \in 1..Len(backends) : i < j => backends[i] < backends[j]
       /\ Backends = backends
  /\ \E state \in [BackendAddrs -> HealthStates] :
       /\ \A b \in BackendAddrs : ~IncludesString(Backends, b) => state[b] = "down"
       /\ health = [state |-> state, changes |-> 0]
  /\ Policy = <<"roundRobin">>
  /\ availableBackends = NilSlice
  /\ arrays = <<>>
  /\ roubin = U32(0)
  /\ probes = [b \in BackendAddrs |-> 0]
  /\ sel = [p \in Selectors |-> IdleSelect]
  /\ history = <<>>
  /\ check = NoCheck
  /\ monitor = NoMonitor
  /\ AdminUnused
  /\ UpstreamUnused
  /\ PickerUnused

\* the goroutine HealthCheck started for `backend` finishes with the verdict
\* the backend's state gives
ProbeReport(backend) == ProbeDone(backend, health.state[backend] = "up")

\* a backend goes down or comes back
HealthChange(backend) ==
  /\ IncludesString(Backends, backend)
  /\ health.changes < MaxHealthChanges
  /\ health' = [state |-> [health.state EXCEPT ![backend] =
                             IF @ = "up" THEN "down" ELSE "up"],
                changes |-> health.changes + 1]
  /\ UNCHANGED <<directorVars, history, adminVars, upstreamVars, us, check, monitor>>

NextLive ==
  \/ HealthCheck
  \/ \E b \in BackendAddrs : ProbeReport(b)
  \/ \E b \in BackendAddrs : HealthChange(b)

\* the ticker keeps firing and every started goroutine finishes (each of its
\* five attempts is bounded by the 3 s timeout)
FairLive ==
  /\ WF_vars(HealthCheck)
  /\ \A b \in BackendAddrs : WF_vars(ProbeReport(b))

SpecLive == InitLive /\ [][NextLive]_vars /\ FairLive

----------------------------------------------------------------------------
(* Properties *)

\* d.availableBackends as a list
Live == SliceSeq(arrays, availableBackends)

IsSelect(e) == e.op = "Select"
\* the Director.Select calls of the run, in order
SelectResults == SelectSeq(history, IsSelect)

\* C1: selecting from an empty live set returns the NoAvailableBackend error,
\* for every policy: each Director.Select under a registered policy and each
\* target pick made while no backend is live ends in that error (not in a
\* panic).
C1_EmptyLiveIsNoAvailable ==
  \A i \in 1..Len(history) :
    /\ (history[i].op = "Select" /\ Policy \in selectFuncMap /\ Live = <<>>)
         => history[i].result = NoAvailable
    /\ (history[i].op = "Pick" /\ us.available = <<>>)
         => history[i].result = NoAvailable

\* C2: the live backends of a group are always among its configured
\* backends.
C2_LiveSubsetOfBackends == LiveSet \subseteq Elems(Backends)

\* C3: under removals concurrent with roundRobin Select calls, every address
\* a Select returns is in the live set at the moment of the return, and the
\* elements of the slice GetAvailableBackends handed out do not change while
\* the Select still holds it.
C3_SelectRaceSafe ==
  [][\A p \in Selectors :
       /\ (sel[p].pc = "index" /\ sel'[p].pc = "done")
            => sel'[p].result.addr \in LiveSet'
       /\ (sel[p].pc = "index")
            => SliceSeq(arrays', sel[p].snap) = SliceSeq(arrays, sel[p].snap)]_vars

\* C9: with roundRobin, a fresh counter and an unchanged live list of N
\* backends, the k-th sequential Select returns live[k mod N]; N consecutive
\* selections visit every backend once, the next N repeat them, and for
\* [s1, s2, s3] the first three return s2, s3, s1.
C9_RoundRobinCycle ==
  LET N == Len(Live)
      r == SelectResults
  IN (Policy = policyRoundRobin /\ N > 0) =>
       /\ \A k \in 1..Len(r) : r[k].result = Ok(Live[(k % N) + 1])
       /\ \A k \in 1..Len(r) :
            k + N - 1 <= Len(r) =>
              {r[j].result.addr : j \in k..(k + N - 1)} = Elems(Live)
       /\ \A k \in 1..Len(r) : k + N <= Len(r) => r[k + N].result = r[k].result
       /\ (Live = <<1, 2, 3>> /\ Len(r) >= 3) =>
            <<r[1].result.addr, r[2].result.addr, r[3].result.addr>> = <<2, 3, 1>>

\* two full roundRobin cycles over [s1, s2, s3] were selected
C9_Witness ==
  /\ Policy = policyRoundRobin
  /\ Live = <<1, 2, 3>>
  /\ Len(SelectResults) = 6

\* the policies that hash a field of the request
HashPolicies ==
  {policyIPHash, headerHashPrefix \o <<HashKey>>, cookieHashPrefix \o <<HashKey>>}

\* C10: under ipHash, header:<key> and cookie:<key>, two selections with the
\* same client IP (header value, cookie value) on the same unchanged live
\* list return the same backend, whatever was selected in between.
C10_HashSelectionDeterministic ==
  \A i, j \in 1..Len(history) :
    (/\ history[i].op = history[j].op
     /\ history[i].key = history[j].key
     /\ \/ history[i].op = "Select" /\ Policy = policyIPHash
        \/ history[i].op = "Pick" /\ us.Policy \in HashPolicies)
    => history[i].result = history[j].result

\* the same client IP was selected for twice, with a selection for another
\* client, sent to another backend, in between
C10_Witness ==
  /\ Policy = policyIPHash
  /\ Len(history) = 3
  /\ \A i \in 1..3 : history[i].op = "Select" /\ history[i].result.kind = "ok"
  /\ history[1].key = history[3].key
  /\ history[2].key # history[1].key
  /\ history[2].result # history[1].result

\* C5: the router's group sequence is sorted ascending by priority in every
\* reachable state, also after AddHost, RemoveHost, AddPrefix and
\* RemovePrefix changed a priority.
C5_DirectorListSorted ==
  \A i, j \in 1..Len(directorList) :
    i < j => Priority[directorList[i]] <= Priority[directorList[j]]

\* C7: after every administrative call on a group's hosts or prefixes,
\* including one that found the element already present or already absent,
\* the priority is 8, minus 4 when there are hosts, minus 2 when there are
\* prefixes.
C7_PriorityNeverStale ==
  \A d \in Directors :
    Priority[d] = 8 - (IF Hosts[d] # <<>> THEN 4 ELSE 0)
                    - (IF Prefixs[d] # <<>> THEN 2 ELSE 0)

\* RemoveHost was just called on a director with prefixes and left it
\* without hosts
C7_Witness ==
  /\ lastCall.op = "RemoveHost"
  /\ Hosts[lastCall.d] = <<>>
  /\ Prefixs[lastCall.d] # <<>>
  /\ Priority[lastCall.d] = 6

\* C8 as stated: once every host passed to AddHost has been removed with
\* RemoveHost, the group has its original priority and host list, whatever
\* its prefix list.
C8_AddThenRemoveRestores ==
  scenario.phase = "done" =>
    /\ Hosts[scenario.d] = scenario.origHosts
    /\ Priority[scenario.d] = scenario.origPriority

\* C8 amended: the same, for hosts that were not in the list when they were
\* passed to AddHost.
C8_AddNewThenRemoveRestores ==
  (scenario.phase = "done" /\ scenario.fresh) =>
    /\ Hosts[scenario.d] = scenario.origHosts
    /\ Priority[scenario.d] = scenario.origPriority

\* two new hosts were added to a group with prefixes and both removed again
C8_Witness ==
  /\ scenario.phase = "done"
  /\ scenario.fresh
  /\ Cardinality(scenario.added) = 2
  /\ Prefixs[scenario.d] # <<>>

\* the upstream named n
UpstreamNamed(n) == upstreams[CHOOSE i \in 1..Len(upstreams) : upstreams[i].Name = n]

\* the upstreams whose Match accepts the last proxied request
Matching ==
  {i \in 1..Len(upstreams) :
     UpstreamMatch(upstreams[i].Hosts, upstreams[i].Prefixs,
                   proxied.host, proxied.uri)}

\* C4: Proxy returns a group that matches the request such that no matching
\* group has a strictly lower priority value (so a host-restricted group
\* wins over a catch-all for a host it matches and the catch-all serves the
\* other hosts); when no group matches it fails with the no-match error and
\* hands nothing to the forwarding handler.
C4_ProxyPicksBestMatch ==
  proxied # NoProxy =>
    IF Matching = {}
      THEN /\ proxied.err = "no match upstream"
           /\ proxied.found = 0
           /\ proxied.handled = 0
      ELSE /\ proxied.err = "none"
           /\ proxied.handled = proxied.found
           /\ \E i \in Matching : upstreams[i].Name = proxied.found
           /\ \A i \in Matching :
                upstreams[i].Priority >= UpstreamNamed(proxied.found).Priority
           /\ (\E i \in Matching : upstreams[i].Hosts # <<>>)
                => UpstreamNamed(proxied.found).Hosts # <<>>

\* the configuration lists a catch-all group first and a host-restricted
\* group second; a request for a host of the second group went to it
C4_Witness ==
  /\ proxied # NoProxy
  /\ UpstreamNamed(1).Hosts = <<>> /\ UpstreamNamed(1).Prefixs = <<>>
  /\ UpstreamNamed(2).Hosts # <<>>
  /\ proxied.found = 2

\* what the specification says Match returns
SpecifiedMatch(hosts, prefixs, host, uri) ==
  /\ hosts = <<>> \/ \E i \in 1..Len(hosts) : RegexpMatch(hosts[i], host)
  /\ prefixs = <<>> \/ \E i \in 1..Len(prefixs) : HasPrefix(uri, prefixs[i])

\* C6: for every group and every (host, path), Match returns (no hosts, or
\* the host matches a host pattern by regular-expression search) and (no
\* prefixes, or the path starts with a prefix); this for Director.Match and
\* for Upstream.Match.
C6_MatchIsHostAndPrefix ==
  /\ lastCall.op = "Match" =>
       lastCall.result = SpecifiedMatch(Hosts[lastCall.d], Prefixs[lastCall.d],
                                        lastCall.arg, lastCall.uri)
  /\ \A k \in 1..Len(proxied.log) :
       proxied.log[k].match =
         SpecifiedMatch(upstreams[proxied.log[k].up].Hosts,
                        upstreams[proxied.log[k].up].Prefixs,
                        proxied.host, proxied.uri)

\* the attempts of the script that count as passed
Passed(script) ==
  {k \in 1..Len(script) : ~script[k].err /\ script[k].status \in 200..399}

\* C11: for every scripted outcome of the 5 attempts of one probe, the
\* backend is in the live list afterwards iff at least 3 of the 5 attempts
\* passed (no transport error and a status in [200,400)), and out of it
\* otherwise; the live list is untouched until all 5 results are in; the
\* probe makes exactly 5 attempts and never stops before deciding.
C11_MajorityOfFive ==
  /\ Len(check.script) <= 5
  /\ check.pc \in {"get", "send", "close", "closed"} =>
       /\ SliceSeq(arrays, availableBackends) = check.before
       /\ ENABLED NextCheck
  /\ check.pc = "done" =>
       /\ Len(check.script) = 5
       /\ Len(check.received) = 5
       /\ check.backend \in LiveSet <=> Cardinality(Passed(check.script)) >= 3
       /\ LiveSet \ {check.backend} = Elems(check.before) \ {check.backend}

\* a backend that was not live passed exactly 3 of its 5 attempts, the two
\* failures being a transport error and a status of 400, and is live now
C11_Witness ==
  /\ check.pc = "done"
  /\ Cardinality(Passed(check.script)) = 3
  /\ \E k \in 1..5 : check.script[k].err
  /\ \E k \in 1..5 : check.script[k].status = 400
  /\ ~IncludesString(check.before, check.backend)
  /\ check.backend \in LiveSet

\* C12: a fault anywhere inside a health-check cycle, in HealthCheck itself
\* or in one of the goroutines it starts, never ends the process and never
\* stops the monitoring: the loop is ticking, or it is recovering and will
\* restart.
C12_FaultNeverStopsMonitoring ==
  /\ monitor.process = "running"
  /\ monitor.pc \in {"ticking", "recovering"}
  /\ monitor.pc = "recovering" => ENABLED Restart

\* C19: whenever no probe goroutine is outstanding, each configured backend
\* is in the live list iff the probe that the most recently started
\* HealthCheck cycle started for it reported healthy; a late result of an
\* older cycle never overwrites the result of a newer one.
C19_LatestCycleDecides ==
  (monitor.process = "running" /\ monitor.cycle > 0 /\ monitor.tasks = {}) =>
    \A b \in Elems(Backends) \cap monitor.started :
      b \in LiveSet <=> monitor.reported[b] = "healthy"

\* header:<key> or cookie:<key>
HashVariant(policy) ==
  HasPrefix(policy, headerHashPrefix) \/ HasPrefix(policy, cookieHashPrefix)

\* the policies createProxyHandler's switch has a case for
SwitchPolicies ==
  {policyFirst, policyRandom, policyRoundRobin, policyLeastconn, policyIPHash}

\* C13: a group whose policy has no selection function and is not a
\* header:/cookie: variant is rejected when it is constructed, so no
\* selection is ever made under such a policy: every selection of a run was
\* made by a group with a known policy.
C13_UnknownPolicyRejected ==
  \A i \in 1..Len(history) :
    /\ history[i].op = "Select" => Policy \in selectFuncMap \/ HashVariant(Policy)
    /\ history[i].op = "Pick" => us.Policy \in SwitchPolicies \/ HashVariant(us.Policy)

\* C14: under header:<key> (cookie:<key>) a request without the named header
\* (cookie) gets index 0 and goes to the first live backend, for every live
\* list of at least one backend.
C14_AbsentKeyPicksFirst ==
  \A i \in 1..Len(history) :
    (/\ history[i].op = "Pick"
     /\ HashVariant(us.Policy)
     /\ history[i].key = <<>>
     /\ us.available # <<>>)
    => history[i].result = Ok(us.available[1])

\* no element of list l occurs twice
NoDuplicates(l) == \A i, j \in 1..Len(l) : l[i] = l[j] => i = j

\* C15: after any interleaving of probe completions and AddBackend /
\* RemoveBackend calls (both lists start empty), neither the live list nor
\* the backend list holds an address twice; adding an address that is
\* present and removing one that is absent leave the list as it was, also
\* when several probes of the same backend from overlapping cycles complete
\* one after the other.
C15_ListsHaveNoDuplicates ==
  [][/\ NoDuplicates(Backends')
     /\ NoDuplicates(SliceSeq(arrays', availableBackends'))
     /\ \A b \in BackendAddrs :
          /\ (AddBackend(b) /\ IncludesString(Backends, b)) => Backends' = Backends
          /\ (RemoveBackend(b) /\ ~IncludesString(Backends, b)) => Backends' = Backends
          /\ (ProbeDone(b, TRUE) /\ b \in LiveSet) =>
               SliceSeq(arrays', availableBackends') = SliceSeq(arrays, availableBackends)
          /\ (ProbeDone(b, FALSE) /\ b \notin LiveSet) =>
               SliceSeq(arrays', availableBackends') = SliceSeq(arrays, availableBackends)
    ]_vars

\* two probes of a configured backend that is already live are outstanding,
\* started by two overlapping cycles
C15_Witness ==
  \E b \in BackendAddrs :
    /\ probes[b] >= 2
    /\ b \in LiveSet
    /\ IncludesString(Backends, b)

\* C16: under leastconn every selection that increments a backend's counter
\* registers one completion callback that decrements it once: a counter is
\* never negative and equals the number of that backend's requests still in
\* flight, so it is 0 once all are over; a selection that finds no available
\* backend increments nothing and returns NoAvailableBackend.
C16_LeastconnCounters ==
  /\ \A b \in Addrs :
       /\ us.conns[b] >= 0
       /\ us.conns[b] = Cardinality({i \in 1..Len(us.callbacks) : us.callbacks[i] = b})
  /\ \A i \in 1..Len(history) :
       (history[i].op = "Pick" /\ us.Policy = policyLeastconn /\ us.available = <<>>)
       => history[i].result = NoAvailable

\* C17: Match and Select leave the group's backends, live list, host
\* patterns, path prefixes, policy and priority as they were; a selection
\* changes nothing but the round-robin counter, and only under the
\* roundRobin policy (first, random, ipHash and unknown policies leave the
\* counter alone); Match leaves the counter alone.
C17_MatchAndSelectFrame ==
  [][/\ UNCHANGED <<Policy, Backends, availableBackends, arrays>>
     /\ UNCHANGED <<Hosts, Prefixs, Priority, directorList>>
     /\ history' # history => (Policy # <<"roundRobin">> => roubin' = roubin)
     /\ lastCall' # lastCall => roubin' = roubin
    ]_vars

\* two selections by ipHash were answered from a live list of two backends
\* and the counter is still 0
C17_Witness ==
  /\ Policy = <<"ipHash">>
  /\ Len(history) >= 2
  /\ \A i \in 1..Len(history) : history[i].op = "Select" /\ history[i].result.kind = "ok"
  /\ availableBackends.len = 2
  /\ roubin = U32(0)

\* the goroutines whose selection function has run
Begun == {p \in Selectors : sel[p].pc # "idle"}

\* C18: K roundRobin selections running concurrently on one group advance
\* the counter by exactly K, and each observes the value its own increment
\* produced, different from every other's; with an unchanged live list of N
\* backends and K = N the K selections return N distinct backends.
C18_ConcurrentRoundRobin ==
  /\ [](roubin = U32(Cardinality(Begun)))
  /\ [](\A p, q \in Selectors :
          (p # q /\ sel[p].pc = "index" /\ sel[q].pc = "index")
          => sel[p].index # sel[q].index)
  /\ [][\A p \in Selectors :
          (sel[p].pc = "idle" /\ sel'[p].pc = "index")
          => (roubin' = IncU32(roubin) /\ sel'[p].index = roubin')]_vars
  /\ []((/\ \A p \in Selectors : sel[p].pc = "done"
         /\ availableBackends.len = NumSelectors)
        => \A p, q \in Selectors :
             /\ sel[p].result.kind = "ok"
             /\ p # q => sel[p].result # sel[q].result)

\* as many goroutines as there are live backends have all returned
C18_Witness ==
  /\ \A p \in Selectors : sel[p].pc = "done" /\ sel[p].result.kind = "ok"
  /\ availableBackends.len = NumSelectors
  /\ roubin = U32(NumSelectors)

\* C20: under fair scheduling of timer ticks and probe goroutines, a
\* configured backend whose probes all succeed from some point on is
\* eventually in the live list and stays there, one whose probes all fail
\* from some point on is eventually out of it and stays out, and a group
\* whose backends are healthy does not keep an empty live list forever.
C20_LiveSetConverges ==
  /\ \A b \in BackendAddrs :
       /\ <>[](IncludesString(Backends, b) /\ health.state[b] = "up") => <>[](b \in LiveSet)
       /\ <>[](IncludesString(Backends, b) /\ health.state[b] = "down") => <>[](b \notin LiveSet)
  /\ [](\A i \in 1..Len(Backends) : health.state[Backends[i]] = "up") => <>(LiveSet # {})

\* a configured backend that is up has been added to the live list behind
\* another one, and no probe is outstanding
C20_Witness ==
  \E b \in BackendAddrs :
    /\ IncludesString(Backends, b)
    /\ health.state[b] = "up"
    /\ availableBackends.len = 2
    /\ arrays[availableBackends.cap][2] = b
    /\ \A a \in BackendAddrs : probes[a] = 0

====
